---- MODULE Spec2Model ----
(***************************************************************************)
(* Model of same-different-selection/assets/old_generate_stimuli.py: the   *)
(* shape geometry functions, the dispatch function draw_shape, the         *)
(* composer save_shape and the module-level enumeration loop.              *)
(*                                                                         *)
(* Numbers handed to the drawing collaborator are Python ints and floats.  *)
(* Both are represented here in fixed point, as integer multiples of       *)
(* 1/Scale pixel: the int 3 is 3 * Scale, the float 52 * cos(a) is         *)
(* 52 * CosMicro[k].  The drawing collaborator (PIL.ImageDraw) and the     *)
(* codec (Image.save) are external: a canvas is the background it was      *)
(* created with and the sequence of drawing calls issued on it, and a file *)
(* is the canvas that was saved under its name.                            *)
(***************************************************************************)
EXTENDS Integers, Sequences, FiniteSets, TLC

VARIABLES
    grid,        \* the five module-level lists the loop iterates over
    idx,         \* positions of the five nested for loops
    pc,          \* position of the script
    run,         \* how many times the script has been started
    calls,       \* save_shape calls made by the current run
    written,     \* file names saved by the current run, in order
    files,       \* the working directory: file name -> saved canvas
    word_size,   \* save_shape local (line 51), "" when unset
    hex_color,   \* save_shape local (line 53), "" when unset
    image,       \* save_shape local canvas: <<>> or <<[bg, draw]>>
    centers,     \* save_shape local: the centers drawn at
    filename     \* save_shape local, "" when unset

vars == <<grid, idx, pc, run, calls, written, files,
          word_size, hex_color, image, centers, filename>>

\* How many times the script is run against the same working directory.
MaxRuns == 2

---------------------------------------------------------------------------
\* Fixed-point representation of Python numbers.

Scale == 1000 * 1000

Px(n) == n * Scale

\* Python's // on a non-negative float a (in 1/Scale units) and an int b.
FloorDivFloat(a, b) == (a \div (b * Scale)) * Scale

\* 3**0.5 / 2 = 0.8660254..., in 1/Scale units.
HalfSqrt3Micro == 866025

\* cos and sin of the ten star angles of draw_star, in 1/Scale units, with
\* the code's value 3.14159 for pi: entry 2i+1 is the outer angle
\* i * (2 * 3.14159 / 5) - 3.14159 / 2, entry 2i+2 that angle + 3.14159 / 5.
CosMicro ==
    << 1, 587786, 951057, 951057, 587786, 1, -587784, -951056, -951057, -587788 >>

SinMicro ==
    << -1000000, -809017, -309017, 309017, 809017, 1000000, 809018, 309019,
       -309014, -809015 >>

---------------------------------------------------------------------------
\* Shape geometry.  `draw` is the sequence of calls issued on the canvas so
\* far; each function returns it extended by the calls it issues.

draw_circle(draw, center, radius, color) ==
    LET x == center[1]
        y == center[2]
    IN  Append(draw, [prim |-> "ellipse",
                      xy   |-> << Px(x - radius), Px(y - radius),
                                  Px(x + radius), Px(y + radius) >>,
                      fill |-> color])

draw_square_from_corner(draw, center, size, color) ==
    LET x == center[1]
        y == center[2]
    IN  Append(draw, [prim |-> "rectangle",
                      xy   |-> << Px(x), Px(y), Px(x + size), Px(y + size) >>,
                      fill |-> color])

draw_square(draw, center, size, color) ==
    LET x == center[1]
        y == center[2]
        half_size == size \div 2
    IN  Append(draw, [prim |-> "rectangle",
                      xy   |-> << Px(x - half_size), Px(y - half_size),
                                  Px(x + half_size), Px(y + half_size) >>,
                      fill |-> color])

draw_triangle(draw, center, size, color) ==
    LET x == center[1]
        y == center[2]
        height == size * HalfSqrt3Micro
        top_point   == << Px(x), Px(y) - FloorDivFloat(height, 2) >>
        left_point  == << Px(x - size \div 2), Px(y) + FloorDivFloat(height, 2) >>
        right_point == << Px(x + size \div 2), Px(y) + FloorDivFloat(height, 2) >>
    IN  Append(draw, [prim |-> "polygon",
                      xy   |-> << top_point, left_point, right_point >>,
                      fill |-> color])

StarPoint(center, half_size, k) ==
    IF k % 2 = 1
    THEN << Px(center[1]) + half_size * CosMicro[k],
            Px(center[2]) + half_size * SinMicro[k] >>
    ELSE << Px(center[1]) + (half_size * CosMicro[k]) \div 2,
            Px(center[2]) + (half_size * SinMicro[k]) \div 2 >>

draw_star(draw, center, size, color) ==
    LET half_size == size \div 2
        points == [k \in 1..10 |-> StarPoint(center, half_size, k)]
    IN  Append(draw, [prim |-> "polygon", xy |-> points, fill |-> color])

\* Dispatch by shape tag: an if/elif chain with no else.
draw_shape_else_circle(draw, shape, center, size, color) ==
    IF shape = "circle" THEN draw_circle(draw, center, size \div 2, color)
    ELSE IF shape = "square" THEN draw_square(draw, center, size, color)
    ELSE IF shape = "triangle" THEN draw_triangle(draw, center, size, color)
    ELSE IF shape = "star" THEN draw_star(draw, center, size, color)
    ELSE draw_circle(draw, center, size \div 2, color)

draw_shape_full_radius(draw, shape, center, size, color) ==
    IF shape = "circle" THEN draw_circle(draw, center, size, color)
    ELSE IF shape = "square" THEN draw_square(draw, center, size, color)
    ELSE IF shape = "triangle" THEN draw_triangle(draw, center, size, color)
    ELSE IF shape = "star" THEN draw_star(draw, center, size, color)
    ELSE draw

draw_shape(draw, shape, center, size, color) ==
    IF shape = "circle" THEN draw_circle(draw, center, size \div 2, color)
    ELSE IF shape = "square" THEN draw_square(draw, center, size, color)
    ELSE IF shape = "triangle" THEN draw_triangle(draw, center, size, color)
    ELSE IF shape = "star" THEN draw_star(draw, center, size, color)
    ELSE draw

---------------------------------------------------------------------------
\* The composer save_shape.

size_mapping == (35 :> "sm") @@ (70 :> "med") @@ (105 :> "lg")

color_mapping ==
    ("red" :> "#D81B60") @@ ("green" :> "#009E73") @@
    ("blue" :> "#1E88E5") @@ ("yellow" :> "#FFC107")

canvas_size == 220

\* The centers of the multi-instance branch (cardinality in [2, 3, 4]).
Centers_thirds(cardinality) ==
    IF cardinality = 2
    THEN << <<canvas_size \div 2, canvas_size \div 3>>,
            <<canvas_size \div 2, (2 * canvas_size) \div 3>> >>
    ELSE IF cardinality = 3
    THEN << <<canvas_size \div 2, canvas_size \div 3>>,
            <<canvas_size \div 3, (2 * canvas_size) \div 3>>,
            <<(2 * canvas_size) \div 3, (2 * canvas_size) \div 3>> >>
    ELSE << <<canvas_size \div 3, canvas_size \div 3>>,
            <<(2 * canvas_size) \div 3, canvas_size \div 3>>,
            <<canvas_size \div 3, (2 * canvas_size) \div 3>>,
            <<(2 * canvas_size) \div 3, (2 * canvas_size) \div 3>> >>

Centers_swapped(cardinality) ==
    IF cardinality = 2
    THEN << <<canvas_size \div 2, canvas_size \div 4>>,
            <<canvas_size \div 2, (3 * canvas_size) \div 4>> >>
    ELSE IF cardinality = 3
    THEN << <<canvas_size \div 4, canvas_size \div 4>>,
            <<(3 * canvas_size) \div 4, canvas_size \div 4>>,
            <<canvas_size \div 2, (3 * canvas_size) \div 4>> >>
    ELSE << <<canvas_size \div 4, canvas_size \div 4>>,
            <<(3 * canvas_size) \div 4, canvas_size \div 4>>,
            <<canvas_size \div 4, (3 * canvas_size) \div 4>>,
            <<(3 * canvas_size) \div 4, (3 * canvas_size) \div 4>> >>

Centers(cardinality) ==
    IF cardinality = 2
    THEN << <<canvas_size \div 2, canvas_size \div 4>>,
            <<canvas_size \div 2, (3 * canvas_size) \div 4>> >>
    ELSE IF cardinality = 3
    THEN << <<canvas_size \div 2, canvas_size \div 4>>,
            <<canvas_size \div 4, (3 * canvas_size) \div 4>>,
            <<(3 * canvas_size) \div 4, (3 * canvas_size) \div 4>> >>
    ELSE << <<canvas_size \div 4, canvas_size \div 4>>,
            <<(3 * canvas_size) \div 4, canvas_size \div 4>>,
            <<canvas_size \div 4, (3 * canvas_size) \div 4>>,
            <<(3 * canvas_size) \div 4, (3 * canvas_size) \div 4>> >>

\* for center in centers: draw_shape(draw, shape, center, size, hex_color)
RECURSIVE DrawAll(_, _, _, _, _)
DrawAll(draw, shape, cs, size, color) ==
    IF cs = <<>> THEN draw
    ELSE DrawAll(draw_shape(draw, shape, Head(cs), size, color),
                 shape, Tail(cs), size, color)

\* The cardinality-1 branch: its own if/elif chain over the shape tag.
DrawSingle_full_radius(draw, shape, center, size, color) ==
    IF shape = "circle" THEN draw_circle(draw, center, size, color)
    ELSE IF shape = "square" THEN draw_square(draw, center, size, color)
    ELSE IF shape = "triangle" THEN draw_triangle(draw, center, size, color)
    ELSE IF shape = "star" THEN draw_star(draw, center, size, color)
    ELSE draw

DrawSingle(draw, shape, center, size, color) ==
    IF shape = "circle" THEN draw_circle(draw, center, size \div 2, color)
    ELSE IF shape = "square" THEN draw_square(draw, center, size, color)
    ELSE IF shape = "triangle" THEN draw_triangle(draw, center, size, color)
    ELSE IF shape = "star" THEN draw_star(draw, center, size, color)
    ELSE draw

\* f"{word_size}-{color}-{shape}-{cardinality}" and f"{word_size}-{color}-{shape}"
NameMulti_no_color(ws, color, shape, cardinality) ==
    ws \o "-" \o shape \o "-" \o ToString(cardinality)

NameMulti(ws, color, shape, cardinality) ==
    ws \o "-" \o color \o "-" \o shape \o "-" \o ToString(cardinality)

NameSingle(ws, color, shape) ==
    ws \o "-" \o color \o "-" \o shape

\* if background_color != 'white': filename += f"-{background_color}"
\* filename += ".webp"
FinishName_always_background(name, background_color) ==
    name \o "-" \o background_color \o ".webp"

FinishName(name, background_color) ==
    (IF background_color # "white" THEN name \o "-" \o background_color ELSE name)
        \o ".webp"

---------------------------------------------------------------------------
\* The module-level lists and the five nested for loops.

shapes == << "circle", "square", "triangle", "star" >>
sizes == << 35, 70, 105 >>
colors == << "red", "green", "blue", "yellow" >>
cardinalities == << 1, 2, 3, 4 >>
background_colors == << "white", "black", "gray" >>

SourceGrid ==
    [shapes |-> shapes, sizes |-> sizes, colors |-> colors,
     cardinalities |-> cardinalities, background_colors |-> background_colors]

\* Callers other than the script's own loop.  save_shape checks none of its
\* arguments against these lists, so a caller may hand it values outside
\* its tables: a single call with any tuple of the values below, and the
\* source grid with one entry of one list replaced by an unmapped value.
AnyShapes == { "circle", "square", "triangle", "star", "hexagon" }
AnySizes == { 35, 70, 105, 50 }
AnyColors == { "red", "green", "blue", "yellow", "purple" }
AnyCardinalities == { 1, 2, 3, 4, 5 }
AnyBackgrounds == { "white", "black", "gray" }

SingleCalls ==
    { [shapes |-> << s >>, sizes |-> << z >>, colors |-> << c >>,
       cardinalities |-> << k >>, background_colors |-> << b >>] :
         s \in AnyShapes, z \in AnySizes, c \in AnyColors,
         k \in AnyCardinalities, b \in AnyBackgrounds }

Replaced(list, bad) ==
    { [list EXCEPT ![i] = b] : i \in DOMAIN list, b \in bad }

OtherGrids ==
    { [SourceGrid EXCEPT !.shapes = l] : l \in Replaced(shapes, {"hexagon"}) }
    \cup { [SourceGrid EXCEPT !.sizes = l] : l \in Replaced(sizes, {50}) }
    \cup { [SourceGrid EXCEPT !.colors = l] : l \in Replaced(colors, {"purple"}) }
    \cup { [SourceGrid EXCEPT !.cardinalities = l] :
              l \in Replaced(cardinalities, {5}) }
    \cup SingleCalls

\* The arguments of the current save_shape call.
shape == grid.shapes[idx[1]]
size == grid.sizes[idx[2]]
color == grid.colors[idx[3]]
cardinality == grid.cardinalities[idx[4]]
background_color == grid.background_colors[idx[5]]

Lens ==
    << Len(grid.shapes), Len(grid.sizes), Len(grid.colors),
       Len(grid.cardinalities), Len(grid.background_colors) >>

LastTuple == \A k \in 1..5 : idx[k] = Lens[k]

\* The next position of the nested loops, innermost loop first.
RECURSIVE NextIdx(_, _)
NextIdx(i, k) ==
    IF k = 0 THEN i
    ELSE IF i[k] < Lens[k] THEN [i EXCEPT ![k] = i[k] + 1]
    ELSE NextIdx([i EXCEPT ![k] = 1], k - 1)

Start(g) ==
    /\ grid = g
    /\ idx = << 1, 1, 1, 1, 1 >>
    /\ pc = "lookup"
    /\ run = 1
    /\ calls = 0
    /\ written = << >>
    /\ files = << >>
    /\ word_size = ""
    /\ hex_color = ""
    /\ image = << >>
    /\ centers = << >>
    /\ filename = ""

Init == Start(SourceGrid)

InitAny == \E g \in {SourceGrid} \cup OtherGrids : Start(g)

\* save_shape is entered and looks up the size label and the hex color; an
\* unmapped size or color raises KeyError, which nothing catches.
Lookup_with_defaults ==
    /\ pc = "lookup"
    /\ calls' = calls + 1
    /\ word_size' = IF size \in DOMAIN size_mapping THEN size_mapping[size] ELSE "med"
    /\ hex_color' = IF color \in DOMAIN color_mapping THEN color_mapping[color]
                    ELSE "#000000"
    /\ pc' = "canvas"
    /\ UNCHANGED << grid, idx, run, written, files, image, centers, filename >>

Lookup ==
    /\ pc = "lookup"
    /\ calls' = calls + 1
    /\ IF size \in DOMAIN size_mapping /\ color \in DOMAIN color_mapping
       THEN /\ word_size' = size_mapping[size]
            /\ hex_color' = color_mapping[color]
            /\ pc' = "canvas"
       ELSE /\ pc' = "error"
            /\ UNCHANGED << word_size, hex_color >>
    /\ UNCHANGED << grid, idx, run, written, files, image, centers, filename >>

\* image = Image.new("RGB", (canvas_size, canvas_size), background_color)
Canvas ==
    /\ pc = "canvas"
    /\ image' = << [bg |-> background_color, draw |-> << >>] >>
    /\ pc' = "draw"
    /\ UNCHANGED << grid, idx, run, calls, written, files, word_size, hex_color,
                    centers, filename >>

\* The two branches on cardinality: lay out, draw, and name.
Draw ==
    /\ pc = "draw"
    /\ IF cardinality \in {2, 3, 4}
       THEN /\ centers' = Centers(cardinality)
            /\ image' = << [image[1] EXCEPT !.draw =
                              DrawAll(@, shape, centers', size, hex_color)] >>
            /\ filename' = NameMulti(word_size, color, shape, cardinality)
       ELSE /\ centers' = << << canvas_size \div 2, canvas_size \div 2 >> >>
            /\ image' = << [image[1] EXCEPT !.draw =
                              DrawSingle(@, shape, centers'[1], size, hex_color)] >>
            /\ filename' = NameSingle(word_size, color, shape)
    /\ pc' = "name"
    /\ UNCHANGED << grid, idx, run, calls, written, files, word_size, hex_color >>

Name ==
    /\ pc = "name"
    /\ filename' = FinishName(filename, background_color)
    /\ pc' = "save"
    /\ UNCHANGED << grid, idx, run, calls, written, files, word_size, hex_color,
                    image, centers >>

\* image.save(filename, "WEBP"), the return of save_shape and the next
\* iteration of the loops.
Save_skip_existing ==
    /\ pc = "save"
    /\ files' = IF filename \in DOMAIN files
                THEN (filename :> [image[1] EXCEPT !.draw = << >>]) @@ files
                ELSE (filename :> image[1]) @@ files
    /\ written' = Append(written, filename)
    /\ word_size' = ""
    /\ hex_color' = ""
    /\ image' = << >>
    /\ centers' = << >>
    /\ filename' = ""
    /\ IF LastTuple
       THEN pc' = "done" /\ idx' = idx
       ELSE pc' = "lookup" /\ idx' = NextIdx(idx, 5)
    /\ UNCHANGED << grid, run, calls >>

Save ==
    /\ pc = "save"
    /\ files' = (filename :> image[1]) @@ files
    /\ written' = Append(written, filename)
    /\ word_size' = ""
    /\ hex_color' = ""
    /\ image' = << >>
    /\ centers' = << >>
    /\ filename' = ""
    /\ IF LastTuple
       THEN pc' = "done" /\ idx' = idx
       ELSE pc' = "lookup" /\ idx' = NextIdx(idx, 5)
    /\ UNCHANGED << grid, run, calls >>

\* The script is started again in the same working directory.
Rerun ==
    /\ pc = "done"
    /\ run < MaxRuns
    /\ run' = run + 1
    /\ idx' = << 1, 1, 1, 1, 1 >>
    /\ pc' = "lookup"
    /\ calls' = 0
    /\ written' = << >>
    /\ UNCHANGED << grid, files, word_size, hex_color, image, centers, filename >>

Next == Lookup \/ Canvas \/ Draw \/ Name \/ Save \/ Rerun

Spec == Init /\ [][Next]_vars

SpecAny == InitAny /\ [][Next]_vars

---------------------------------------------------------------------------
\* Properties.

\* States in which save_shape has drawn and not yet returned.
Drawn == pc \in {"name", "save"}

Range(f) == { f[i] : i \in DOMAIN f }

SetMin(S) == CHOOSE m \in S : \A n \in S : m <= n
SetMax(S) == CHOOSE m \in S : \A n \in S : m >= n

\* The axis-aligned bounding box << x0, y0, x1, y1 >> of one drawing call.
BBox(call) ==
    IF call.prim = "polygon"
    THEN << SetMin({ p[1] : p \in Range(call.xy) }),
            SetMin({ p[2] : p \in Range(call.xy) }),
            SetMax({ p[1] : p \in Range(call.xy) }),
            SetMax({ p[2] : p \in Range(call.xy) }) >>
    ELSE call.xy

\* Every x and every y handed to the drawing collaborator by one call.
Xs(call) ==
    IF call.prim = "polygon" THEN { p[1] : p \in Range(call.xy) }
    ELSE { call.xy[1], call.xy[3] }

Ys(call) ==
    IF call.prim = "polygon" THEN { p[2] : p \in Range(call.xy) }
    ELSE { call.xy[2], call.xy[4] }

Apart(a, b) == a[3] < b[1] \/ b[3] < a[1] \/ a[4] < b[2] \/ b[4] < a[2]

SizeLabel(s) == CASE s = 35 -> "sm" [] s = 70 -> "med" [] s = 105 -> "lg"

ExpectedName ==
    SizeLabel(size) \o "-" \o color \o "-" \o shape
    \o (IF cardinality = 1 THEN "" ELSE "-" \o ToString(cardinality))
    \o (IF background_color = "white" THEN "" ELSE "-" \o background_color)
    \o ".webp"

\* C1: the file name save_shape is about to write is sizeLabel-color-shape,
\* then -cardinality unless the cardinality is 1, then -background unless
\* the background is white, then .webp; (star, 70, blue, 3, white) gives
\* med-blue-star-3.webp and (circle, 35, red, 1, black) gives
\* sm-red-circle-black.webp.
C1_FileName ==
    pc = "save" =>
        /\ filename = ExpectedName
        /\ (<< shape, size, color, cardinality, background_color >>
               = << "star", 70, "blue", 3, "white" >>
            => filename = "med-blue-star-3.webp")
        /\ (<< shape, size, color, cardinality, background_color >>
               = << "circle", 35, "red", 1, "black" >>
            => filename = "sm-red-circle-black.webp")

C1_Witness ==
    /\ pc = "save"
    /\ << shape, size, color, cardinality, background_color >>
          = << "circle", 35, "red", 2, "gray" >>
    /\ filename = "sm-red-circle-2-gray.webp"
    /\ "sm-red-circle-black.webp" \in DOMAIN files

\* C2: within one run no file name is written twice, and a finished run has
\* made 576 save_shape calls and written 576 distinct file names.
C2_Distinct576 ==
    /\ Cardinality(Range(written)) = Len(written)
    /\ calls <= 576
    /\ pc = "done" =>
          /\ calls = 576
          /\ Len(written) = 576
          /\ Cardinality(Range(written)) = 576
          /\ Range(written) = DOMAIN files

C2_Witness == pc = "done" /\ run = 1 /\ Len(written) = 576

ExpectedCenters ==
    << << <<110, 110>> >>,
       << <<110, 55>>, <<110, 165>> >>,
       << <<110, 55>>, <<55, 165>>, <<165, 165>> >>,
       << <<55, 55>>, <<165, 55>>, <<55, 165>>, <<165, 165>> >> >>

\* C3: save_shape draws exactly `cardinality` instances, the k-th at the
\* k-th center of the layout of that cardinality, whatever the shape, size,
\* color and background.
C3_Centers ==
    Drawn =>
        /\ centers = ExpectedCenters[cardinality]
        /\ Len(image[1].draw) = cardinality
        /\ \A k \in 1..cardinality :
              << image[1].draw[k] >> =
                  draw_shape(<< >>, shape, ExpectedCenters[cardinality][k],
                             size, hex_color)

C3_Witness ==
    /\ Drawn
    /\ cardinality = 3
    /\ centers = << <<110, 55>>, <<55, 165>>, <<165, 165>> >>
    /\ Len(image[1].draw) = 3

\* C4: for cardinality 2, 3 and 4 the bounding boxes of any two instances on
\* one canvas share no point.
C4_Disjoint ==
    (Drawn /\ cardinality \in {2, 3, 4}) =>
        \A i, j \in DOMAIN image[1].draw :
            i < j => Apart(BBox(image[1].draw[i]), BBox(image[1].draw[j]))

C4_Witness ==
    /\ Drawn
    /\ cardinality = 4
    /\ size = 105
    /\ shape = "circle"
    /\ Len(image[1].draw) = 4

\* C5: a save_shape call with an unmapped size or color ends in the lookup
\* error before a canvas exists, writes nothing, leaves the files written so
\* far as they are, and the script takes no further step.
C5_LookupAborts ==
    [][ /\ pc # "error"
        /\ (pc = "lookup" /\ (size \notin {35, 70, 105}
                              \/ color \notin {"red", "green", "blue", "yellow"}))
           => /\ pc' = "error"
              /\ image = << >>
              /\ image' = << >>
              /\ files' = files
              /\ written' = written
              /\ idx' = idx ]_vars

C5_Witness ==
    /\ pc = "error"
    /\ size = 50
    /\ color = "red"
    /\ written # << >>
    /\ files # << >>
    /\ image = << >>

\* C6: draw_shape with a shape tag outside circle, square, triangle, star
\* issues no drawing call and leaves the canvas as it is, and the call
\* raises nothing: save_shape goes on to name and save the canvas.
C6_UnknownShapeNoOp ==
    (Drawn /\ shape \notin {"circle", "square", "triangle", "star"}) =>
        /\ cardinality \in {2, 3, 4} => image[1].draw = << >>
        /\ \A c \in Range(centers) :
              draw_shape(image[1].draw, shape, c, size, hex_color) = image[1].draw

C6_Witness ==
    /\ pc = "save"
    /\ shape = "hexagon"
    /\ cardinality = 4
    /\ image[1].draw = << >>

\* C7: for cardinality 1 the calls issued by the direct branch are the calls
\* draw_shape(draw, shape, (110, 110), size, hex_color) issues.
C7_SingleIsDispatch ==
    (Drawn /\ cardinality = 1) =>
        image[1].draw = draw_shape(<< >>, shape, << 110, 110 >>, size, hex_color)

C7_Witness ==
    /\ Drawn
    /\ cardinality = 1
    /\ shape = "circle"
    /\ Len(image[1].draw) = 1

\* C8: a second invocation of save_shape with a tuple already generated
\* arrives at the same file name with the same canvas, so its save leaves
\* the files and their contents as they were.
C8_Idempotent ==
    [][ (pc = "save" /\ run > 1) =>
            /\ filename \in DOMAIN files
            /\ files[filename] = image[1]
            /\ files' = files ]_vars

C8_Witness ==
    /\ run = 2
    /\ pc = "save"
    /\ filename \in DOMAIN files
    /\ files[filename] = image[1]

\* draw_square issues one rectangle per instance, centered on its center,
\* whose extent in each axis is `side`.
SquaresHaveSide(side) ==
    /\ Len(image[1].draw) = Len(centers)
    /\ \A k \in DOMAIN centers :
          LET r == image[1].draw[k]
              cx == Px(centers[k][1])
              cy == Px(centers[k][2])
          IN  /\ r.prim = "rectangle"
              /\ cx - r.xy[1] = r.xy[3] - cx
              /\ cy - r.xy[2] = r.xy[4] - cy
              /\ r.xy[3] - r.xy[1] = Px(side)
              /\ r.xy[4] - r.xy[2] = Px(side)

\* C9 as stated: the side of the rectangle, the difference of its opposite
\* bounding coordinates, equals size.
C9_SideIsSize ==
    (Drawn /\ shape = "square") => SquaresHaveSide(size)

\* C9 amended: draw_square issues one rectangle centered on the center
\* whose side, the difference of its opposite bounding coordinates, is
\* 2 * (size // 2): 34, 70, 104 for sizes 35, 70, 105.
C9_SideTruncated ==
    (Drawn /\ shape = "square") =>
        /\ SquaresHaveSide(2 * (size \div 2))
        /\ size = 35 => SquaresHaveSide(34)
        /\ size = 70 => SquaresHaveSide(70)
        /\ size = 105 => SquaresHaveSide(104)

C9_Witness ==
    /\ Drawn
    /\ shape = "square"
    /\ size = 105
    /\ cardinality = 4
    /\ image[1].draw[1].xy = << Px(3), Px(3), Px(107), Px(107) >>

\* C10: every coordinate handed to the drawing collaborator lies in 0..219.
C10_InsideCanvas ==
    Drawn =>
        \A k \in DOMAIN image[1].draw :
            \A v \in Xs(image[1].draw[k]) \cup Ys(image[1].draw[k]) :
                0 <= v /\ v <= Px(canvas_size - 1)

C10_Witness ==
    /\ Drawn
    /\ size = 105
    /\ cardinality = 4
    /\ shape = "circle"
    /\ image[1].draw[4].xy = << Px(113), Px(113), Px(217), Px(217) >>

====
